---- MODULE Spec2Model ----
(***************************************************************************)
(* pySL4Land: UTM zone selection (pysl4land_utils.py) and ICESat-2 segment *)
(* footprint polygons (pysl4land_icesat2.get_segment_polygons).            *)
(*                                                                         *)
(* Number representation.  The program works on float64 arrays; the model  *)
(* uses fixed point integers:                                              *)
(*   - latitude / longitude inputs : whole degrees                         *)
(*   - planar (UTM) coordinates    : decimetres                            *)
(*   - angles                      : milliradians                          *)
(*   - cosines / sines             : thousandths                           *)
(*   - returned polygon vertices   : microdegrees                          *)
(* and the value NaN for the IEEE not-a-number that numpy produces for the *)
(* quotient 0/0 (numpy warns, it does not raise).                          *)
(* A coordinate computed from NaN is NaN in the planar frame; what the     *)
(* back-projection makes of it (NaN or inf) is not a number either and is  *)
(* written NaN as well.                                                    *)
(***************************************************************************)
EXTENDS Integers, Sequences, FiniteSets, TLC

VARIABLES latitude, longitude, along_size, across_size, op, err,
          utm_zones, utm_zone, epsg_code, x, y,
          sgl_flight_angle, local_angle, flight_angle, polys_utm, polys,
          polys_crs, use_seg_polys, out_epsg_code, gdf_geometry, gdf_crs,
          to_crs_calls

vars == <<latitude, longitude, along_size, across_size, op, err,
          utm_zones, utm_zone, epsg_code, x, y,
          sgl_flight_angle, local_angle, flight_angle, polys_utm, polys,
          polys_crs, use_seg_polys, out_epsg_code, gdf_geometry, gdf_crs,
          to_crs_calls>>

(***************************************************************************)
(* Bounds of the model and the inputs that are enumerated.                 *)
(***************************************************************************)
\* longest track drawn from the full sample set
MaxLen == 3
\* longest track drawn from the two samples either side of a zone boundary
MaxTrack == 10

\* IEEE NaN, a value no computation of the model can produce as a number
NaN == 2000000000

Sample(lat, lon) == [lat |-> lat, lon |-> lon]

\* (latitude, longitude) pairs a caller can pass; two are in the southern
\* hemisphere, and two are outside the valid geographic domain, which the
\* code never checks.
Samples ==
    { Sample(0, -179), Sample(0, -176), Sample(6, -179), Sample(12, -178),
      Sample(60, 11), Sample(75, 5), Sample(75, 15), Sample(75, 35),
      Sample(0, 179), Sample(0, 200), Sample(95, 0),
      Sample(-30, -179), Sample(-36, -179) }

BorderSamples == { Sample(0, -179), Sample(0, -176) }

Tracks ==
    UNION { [1..n -> Samples] : n \in 0..MaxLen }
    \cup UNION { [1..n -> BorderSamples] : n \in (MaxLen + 1)..MaxTrack }

\* (along_size, across_size) in decimetres; the first is the default 100.0 x 13.0
Sizes == { <<1000, 130>>, <<400, 200>> }

(***************************************************************************)
(* Arithmetic helpers.                                                     *)
(***************************************************************************)
Abs(a) == IF a < 0 THEN -a ELSE a

Min(S) == CHOOSE m \in S : \A o \in S : m <= o

\* nearest integer to a/b (b > 0), halves away from zero: the rounding of a
\* fixed-point product back to its unit
DivRound(a, b) ==
    LET q == Abs(a) \div b
        r == Abs(a) % b
        m == IF 2 * r >= b THEN q + 1 ELSE q
    IN  IF a < 0 THEN -m ELSE m

\* numpy.rint(num/den) for den > 0: nearest integer, halves to the even one
RInt(num, den) ==
    LET q == num \div den
        r == num % den
    IN  IF 2 * r < den THEN q
        ELSE IF 2 * r > den THEN q + 1
        ELSE IF q % 2 = 0 THEN q ELSE q + 1

(***************************************************************************)
(* pysl4land_utils.latlon_to_utm_zone_number                               *)
(***************************************************************************)
\* ZoneOf with the Norway mask cut short at 11 degrees east
ZoneOf_NorwayShort(lat, lon) ==
    LET z0 == RInt((lon + 180) + 6, 6)
        z1 == IF 56 <= lat /\ lat < 64 /\ 3 <= lon /\ lon < 11 THEN 32 ELSE z0
        z2 == IF 72 <= lat /\ lat <= 84 /\ lon >= 0 /\ lon < 9 THEN 31 ELSE z1
        z3 == IF 72 <= lat /\ lat <= 84 /\ lon >= 0 /\ lon < 21 THEN 33 ELSE z2
        z4 == IF 72 <= lat /\ lat <= 84 /\ lon >= 0 /\ lon < 33 THEN 35 ELSE z3
        z5 == IF 72 <= lat /\ lat <= 84 /\ lon >= 0 /\ lon < 42 THEN 37 ELSE z4
    IN  z5

\* one element of the array computation: the rounded band number, then the
\* five masked assignments in source order (a later one overwrites an
\* earlier one wherever its mask holds)
ZoneOf(lat, lon) ==
    LET z0 == RInt((lon + 180) + 6, 6)
        z1 == IF 56 <= lat /\ lat < 64 /\ 3 <= lon /\ lon < 12 THEN 32 ELSE z0
        z2 == IF 72 <= lat /\ lat <= 84 /\ lon >= 0 /\ lon < 9 THEN 31 ELSE z1
        z3 == IF 72 <= lat /\ lat <= 84 /\ lon >= 0 /\ lon < 21 THEN 33 ELSE z2
        z4 == IF 72 <= lat /\ lat <= 84 /\ lon >= 0 /\ lon < 33 THEN 35 ELSE z3
        z5 == IF 72 <= lat /\ lat <= 84 /\ lon >= 0 /\ lon < 42 THEN 37 ELSE z4
    IN  z5

latlon_to_utm_zone_number(lats, lons) ==
    [i \in 1..Len(lats) |-> ZoneOf(lats[i], lons[i])]

(***************************************************************************)
(* scipy.stats.mode on a 1-d integer array, as called at utils line 90:    *)
(* the distinct values are visited in ascending order and a value replaces *)
(* the current mode only when its count is strictly greater.  An empty     *)
(* array gives empty mode and count arrays.                                *)
(***************************************************************************)
Count(a, v) == Cardinality({ i \in 1..Len(a) : a[i] = v })

Values(a) == { a[i] : i \in 1..Len(a) }

\* ModeLoop replacing the current mode on an equal count too
RECURSIVE ModeLoop_TieLast(_, _, _, _)
ModeLoop_TieLast(a, scores, mostfrequent, oldcounts) ==
    IF scores = {} THEN <<mostfrequent>>
    ELSE LET score == Min(scores)
             counts == Count(a, score)
         IN  IF counts >= oldcounts
             THEN ModeLoop_TieLast(a, scores \ {score}, score, counts)
             ELSE ModeLoop_TieLast(a, scores \ {score}, mostfrequent, oldcounts)

RECURSIVE ModeLoop(_, _, _, _)
ModeLoop(a, scores, mostfrequent, oldcounts) ==
    IF scores = {} THEN <<mostfrequent>>
    ELSE LET score == Min(scores)
             counts == Count(a, score)
         IN  IF counts > oldcounts
             THEN ModeLoop(a, scores \ {score}, score, counts)
             ELSE ModeLoop(a, scores \ {score}, mostfrequent, oldcounts)

scipy_stats_mode(a) == IF Len(a) = 0 THEN << >> ELSE ModeLoop(a, Values(a), 0, 0)

(***************************************************************************)
(* pysl4land_utils.latlon_to_mode_utm_zone_number: mode[0] of the mode     *)
(* array; indexing the empty array raises IndexError.                      *)
(***************************************************************************)
\* latlon_to_mode_utm_zone_number returning the first sample's zone
latlon_to_mode_utm_zone_number_First(lats, lons) ==
    LET zones == latlon_to_utm_zone_number(lats, lons)
    IN  IF Len(zones) = 0
        THEN [err |-> "IndexError", zone |-> 0]
        ELSE [err |-> "none", zone |-> zones[1]]

\* latlon_to_mode_utm_zone_number answering zone 0 for empty arrays
latlon_to_mode_utm_zone_number_EmptyZero(lats, lons) ==
    LET zones == latlon_to_utm_zone_number(lats, lons)
        mode == scipy_stats_mode(zones)
    IN  IF Len(mode) = 0
        THEN [err |-> "none", zone |-> 0]
        ELSE [err |-> "none", zone |-> mode[1]]

latlon_to_mode_utm_zone_number(lats, lons) ==
    LET zones == latlon_to_utm_zone_number(lats, lons)
        mode == scipy_stats_mode(zones)
    IN  IF Len(mode) = 0
        THEN [err |-> "IndexError", zone |-> 0]
        ELSE [err |-> "none", zone |-> mode[1]]

(***************************************************************************)
(* Fixed-point trigonometry (math.atan, numpy.arctan, numpy.cos,           *)
(* numpy.sin).  Angles in milliradians, ratios and results in thousandths. *)
(***************************************************************************)
\* pi/2 in milliradians: atan of an infinite quotient
HalfPi == 1571

\* 0.1 rad, the threshold of the stability rule, in milliradians
AngleThreshold == 100

\* thousandths per unit of the fixed-point ratios, cosines and sines
Milli == 1000

\* atan(q/1000) in milliradians for 0 <= q <= 1000
\* (q * (pi/4 + 0.273 * (1 - q)), accurate to 4 mrad)
ATanUnit(q) == (q * (785398 + 273 * (Milli - q))) \div 1000000

\* atan(n / d) as numpy evaluates it on float64: 0/0 is NaN, a non-zero
\* numerator over 0 is +-inf whose arctangent is +-pi/2
ATanQuot(n, d) ==
    IF d = 0
    THEN IF n = 0 THEN NaN ELSE IF n > 0 THEN HalfPi ELSE -HalfPi
    ELSE LET big == Abs(n) > 1000000 \/ Abs(d) > 1000000
             an == IF big THEN Abs(n) \div Milli ELSE Abs(n)
             ad == IF big THEN Abs(d) \div Milli ELSE Abs(d)
             mag == IF an <= ad
                    THEN ATanUnit((an * Milli) \div ad)
                    ELSE HalfPi - ATanUnit((ad * Milli) \div an)
         IN  IF (n < 0) = (d < 0) THEN mag ELSE -mag

\* 1000 * cos(t / 1000), t in -HalfPi..HalfPi (Taylor series to t^8)
Cos(t) ==
    IF t = NaN THEN NaN
    ELSE LET u == (t * t) \div Milli
             u2 == (u * u) \div Milli
             u3 == (u2 * u) \div Milli
             u4 == (u3 * u) \div Milli
         IN  Milli - (u \div 2) + (u2 \div 24) - (u3 \div 720) + (u4 \div 40320)

\* 1000 * sin(t / 1000), t in -HalfPi..HalfPi (Taylor series to t^7)
Sin(t) ==
    IF t = NaN THEN NaN
    ELSE LET a == Abs(t)
             u == (a * a) \div Milli
             u2 == (u * u) \div Milli
             u3 == (u2 * u) \div Milli
             s == a - ((a * u) \div 6000) + ((a * u2) \div 120000)
                    - ((a * u3) \div 5040000)
         IN  IF t < 0 THEN -s ELSE s

(***************************************************************************)
(* GeoDataFrame.to_crs between EPSG:4326 and EPSG:326zz.  The projection   *)
(* itself is pyproj's; the model stands in for it with the plane chart of  *)
(* the zone: 10^6 dm per degree, false easting 500 km on the zone's        *)
(* central meridian.  Forward and inverse are separate computations.       *)
(***************************************************************************)
\* EPSG code of UTM zone 0 north: epsg_code = 32600 + utm_zone
EpsgBase == 32600

\* decimetres per degree of the stand-in chart (111.3 km)
DmPerDeg == 1113000

\* false easting, decimetres
FalseEasting == 5000000

\* central meridian, degrees, of the zone an EPSG:326zz code names
CentralMeridian(epsg) == (epsg - EpsgBase) * 6 - 183

\* EPSG:4326 (whole degrees) -> EPSG:epsg (decimetres)
to_crs_utm(lat, lon, epsg) ==
    <<FalseEasting + (lon - CentralMeridian(epsg)) * DmPerDeg, lat * DmPerDeg>>

\* a length of the chart, decimetres, as an angle in microdegrees
ToMicroDeg(d) ==
    LET a == Abs(d)
        u == (a \div DmPerDeg) * 1000000
               + DivRound((a % DmPerDeg) * Milli, DmPerDeg \div Milli)
    IN  IF d < 0 THEN -u ELSE u

\* EPSG:epsg (decimetres) -> EPSG:4326 (microdegrees), as <<lon, lat>>
to_crs_wgs84(pt, epsg) ==
    IF pt[1] = NaN \/ pt[2] = NaN THEN <<NaN, NaN>>
    ELSE <<CentralMeridian(epsg) * 1000000 + ToMicroDeg(pt[1] - FalseEasting),
           ToMicroDeg(pt[2])>>

\* utm_epsg_code choosing the southern-hemisphere frame (EPSG 32700 + zone)
\* for a track that lies south of the equator
utm_epsg_code_Hemisphere(lats, zone) ==
    IF Len(lats) >= 1 /\ \A i \in 1..Len(lats) : lats[i] < 0
    THEN EpsgBase + 100 + zone
    ELSE EpsgBase + zone

\* epsg_code = 32600 + utm_zone: the latitudes in scope are not consulted
utm_epsg_code(lats, zone) == EpsgBase + zone

\* EPSG code of the geographic WGS84 frame
Wgs84 == 4326

\* an angle, microdegrees, as a length of the chart in decimetres
ToDm(u) ==
    LET a == Abs(u)
        d == a + (a \div Milli) * (DmPerDeg \div Milli - Milli)
               + DivRound((a % Milli) * (DmPerDeg \div Milli - Milli), Milli)
    IN  IF u < 0 THEN -d ELSE d

\* one vertex <<lon, lat>> (microdegrees, EPSG:4326) -> EPSG:epsg (decimetres)
to_crs_out(v, epsg) ==
    IF v[1] = NaN \/ v[2] = NaN THEN <<NaN, NaN>>
    ELSE <<FalseEasting + ToDm(v[1] - CentralMeridian(epsg) * 1000000),
           ToDm(v[2])>>

\* "EPSG:4326".format(epsg_code) with the format argument taking effect
wgs84_crs_Formatted(epsg) == epsg

\* "EPSG:4326".format(epsg_code): the string has no placeholder, the frame
\* the footprints are projected back to is EPSG:4326 whatever epsg_code is
wgs84_crs(epsg) == Wgs84

(***************************************************************************)
(* pysl4land_icesat2.get_segment_polygons, stage by stage.                 *)
(***************************************************************************)
\* geometry_x projecting every point in the zone of its own longitude
geometry_x_OwnZone(lats, lons, epsg) ==
    [i \in 1..Len(lats) |->
        to_crs_utm(lats[i], lons[i], EpsgBase + ZoneOf(lats[i], lons[i]))[1]]

\* x = numpy.array(icesat2_pts_utm_gdf.geometry.x): every row of the table
\* projected to the one frame EPSG:epsg, in row order
geometry_x(lats, lons, epsg) ==
    [i \in 1..Len(lats) |-> to_crs_utm(lats[i], lons[i], epsg)[1]]

\* y = numpy.array(icesat2_pts_utm_gdf.geometry.y)
geometry_y(lats, lons, epsg) ==
    [i \in 1..Len(lats) |-> to_crs_utm(lats[i], lons[i], epsg)[2]]

\* StepForward wrapping round at the start (numpy.roll(v, 1))
StepForward_Roll(v) == [i \in 1..Len(v) |-> IF i = 1 THEN v[Len(v)] ELSE v[i - 1]]

\* "Step Forward": v_fwd[1:] = v[0:n-1]; v_fwd[0] = v[0]
StepForward(v) == [i \in 1..Len(v) |-> IF i = 1 THEN v[1] ELSE v[i - 1]]

\* "Step Backwards": v_bck[0:n-1] = v[1:n]; v_bck[-1] = v[-1]
StepBackwards(v) == [i \in 1..Len(v) |-> IF i = Len(v) THEN v[Len(v)] ELSE v[i + 1]]

\* sgl_flight_angle = math.atan((x[-1] - x[0]) / (y[-1] - y[0]))
SglFlightAngle(xs, ys) ==
    ATanQuot(xs[Len(xs)] - xs[1], ys[Len(ys)] - ys[1])

\* flight_angle = numpy.arctan((x_fwd - x_bck) / (y_fwd - y_bck))
LocalAngles(xs, ys) ==
    [i \in 1..Len(xs) |->
        ATanQuot(StepForward(xs)[i] - StepBackwards(xs)[i],
                 StepForward(ys)[i] - StepBackwards(ys)[i])]

\* numpy.absolute(a - b); NaN when either operand is NaN
AbsDif(a, b) == IF a = NaN \/ b = NaN THEN NaN ELSE Abs(a - b)

\* ClampAngles comparing the signed difference (numpy.absolute left out)
ClampAngles_Signed(angles, sgl) ==
    [i \in 1..Len(angles) |->
        IF angles[i] # NaN /\ sgl # NaN /\ angles[i] - sgl > AngleThreshold
        THEN sgl ELSE angles[i]]

\* flight_angle[flight_angle_dif > 0.1] = sgl_flight_angle
\* (a comparison with NaN is False, so such an element is left as it is)
ClampAngles(angles, sgl) ==
    [i \in 1..Len(angles) |->
        LET dif == AbsDif(angles[i], sgl)
        IN  IF dif # NaN /\ dif > AngleThreshold THEN sgl ELSE angles[i]]

\* c + theta_cos * (px - c) + theta_sin * (py - cy), and the y counterpart,
\* for the corner at offset (dx, dy) from the centre (cx, cy)
RotCorner(cx, cy, dx, dy, theta) ==
    IF theta = NaN THEN <<NaN, NaN>>
    ELSE <<cx + DivRound(Cos(theta) * dx + Sin(theta) * dy, Milli),
           cy + DivRound((-Sin(theta)) * dx + Cos(theta) * dy, Milli)>>

\* Polygonise listing the corners row by row (ul, ur, ll, lr)
Polygonise_RowOrder(cx, cy, theta, along, across) ==
    LET along_size_h == along \div 2
        across_size_h == across \div 2
    IN  << RotCorner(cx, cy, -across_size_h, along_size_h, theta),
           RotCorner(cx, cy, across_size_h, along_size_h, theta),
           RotCorner(cx, cy, -across_size_h, -along_size_h, theta),
           RotCorner(cx, cy, across_size_h, -along_size_h, theta) >>

\* _polygonise_2Dcells: (ul, ur, lr, ll) of one row
Polygonise(cx, cy, theta, along, across) ==
    LET along_size_h == along \div 2
        across_size_h == across \div 2
    IN  << RotCorner(cx, cy, -across_size_h, along_size_h, theta),
           RotCorner(cx, cy, across_size_h, along_size_h, theta),
           RotCorner(cx, cy, across_size_h, -along_size_h, theta),
           RotCorner(cx, cy, -across_size_h, -along_size_h, theta) >>

\* polys = icesat2_pts_utm_gdf.apply(_polygonise_2Dcells, axis=1)
PolysUtm(xs, ys, angles, along, across) ==
    [i \in 1..Len(xs) |-> Polygonise(xs[i], ys[i], angles[i], along, across)]

\* icesat2_polys_utm_gdf.to_crs("EPSG:4326"), vertex by vertex, row by row
PolysWgs84(ps, epsg) ==
    [i \in 1..Len(ps) |-> [k \in 1..4 |-> to_crs_wgs84(ps[i][k], epsg)]]

(***************************************************************************)
(* State machine.  The three functions are stateless entry points; a state *)
(* holds the arguments of the caller and what the last call computed and   *)
(* returned (err # "none": the call raised and returned nothing).          *)
(***************************************************************************)
Init ==
    /\ \E t \in Tracks :
          /\ latitude = [i \in 1..Len(t) |-> t[i].lat]
          /\ longitude = [i \in 1..Len(t) |-> t[i].lon]
    /\ along_size = 0
    /\ across_size = 0
    /\ op = "none"
    /\ err = "none"
    /\ utm_zones = << >>
    /\ utm_zone = 0
    /\ epsg_code = 0
    /\ x = << >>
    /\ y = << >>
    /\ sgl_flight_angle = 0
    /\ local_angle = << >>
    /\ flight_angle = << >>
    /\ polys_utm = << >>
    /\ polys = << >>
    /\ polys_crs = 0
    /\ use_seg_polys = FALSE
    /\ out_epsg_code = 0
    /\ gdf_geometry = << >>
    /\ gdf_crs = 0
    /\ to_crs_calls = 0

\* nothing of get_segment_polygons is left by the call being made
NoSegmentLocals ==
    /\ utm_zone' = 0
    /\ epsg_code' = 0
    /\ x' = << >>
    /\ y' = << >>
    /\ sgl_flight_angle' = 0
    /\ local_angle' = << >>
    /\ flight_angle' = << >>
    /\ polys_utm' = << >>
    /\ polys' = << >>
    /\ polys_crs' = 0

\* nothing of get_icesat2_alt08_beam_as_gdf is left by the call being made
NoTable ==
    /\ use_seg_polys' = FALSE
    /\ out_epsg_code' = 0
    /\ gdf_geometry' = << >>
    /\ gdf_crs' = 0
    /\ to_crs_calls' = 0

\* latlon_to_utm_zone_number(latitude, longitude) on the caller's arrays
CallZoneNumber ==
    /\ op = "none"
    /\ op' = "latlon_to_utm_zone_number"
    /\ err' = "none"
    /\ utm_zones' = latlon_to_utm_zone_number(latitude, longitude)
    /\ NoSegmentLocals
    /\ NoTable
    /\ along_size' = 0
    /\ across_size' = 0
    /\ UNCHANGED <<latitude, longitude>>

\* latlon_to_utm_zone_number(lat, lon) on one scalar pair: lines 56-57 leave
\* a numpy.int64 scalar in utm_zones, and the first masked assignment
\* utm_zones[...] = 32 (line 59) raises TypeError, whatever the mask is,
\* because a numpy scalar does not support item assignment
latlon_to_utm_zone_number_scalar(lat, lon) ==
    [err |-> "TypeError", zones |-> << >>]

\* latlon_to_utm_zone_number(latitude[0], longitude[0]): the caller passes
\* its one sample as two scalars
CallZoneNumberScalar ==
    LET r == latlon_to_utm_zone_number_scalar(latitude[1], longitude[1])
    IN  /\ op = "none"
        /\ Len(latitude) = 1
        /\ op' = "latlon_to_utm_zone_number(scalar)"
        /\ err' = r.err
        /\ utm_zones' = r.zones
        /\ NoSegmentLocals
        /\ NoTable
        /\ along_size' = 0
        /\ across_size' = 0
        /\ UNCHANGED <<latitude, longitude>>

\* latlon_to_mode_utm_zone_number(latitude, longitude)
CallModeZone ==
    LET r == latlon_to_mode_utm_zone_number(latitude, longitude)
    IN  /\ op = "none"
        /\ op' = "latlon_to_mode_utm_zone_number"
        /\ err' = r.err
        /\ utm_zones' = latlon_to_utm_zone_number(latitude, longitude)
        /\ utm_zone' = r.zone
        /\ epsg_code' = 0
        /\ x' = << >>
        /\ y' = << >>
        /\ sgl_flight_angle' = 0
        /\ local_angle' = << >>
        /\ flight_angle' = << >>
        /\ polys_utm' = << >>
        /\ polys' = << >>
        /\ polys_crs' = 0
        /\ NoTable
        /\ along_size' = 0
        /\ across_size' = 0
        /\ UNCHANGED <<latitude, longitude>>

\* the body of get_segment_polygons(latitude, longitude, along, across): the
\* stages in source order, each from the values the stage before it left
SegmentPolygons(along, across) ==
    LET r == latlon_to_mode_utm_zone_number(latitude, longitude)
    IN  /\ along_size' = along
        /\ across_size' = across
        /\ utm_zones' = latlon_to_utm_zone_number(latitude, longitude)
        /\ err' = r.err
        /\ IF r.err # "none"
           THEN NoSegmentLocals
           ELSE /\ utm_zone' = r.zone
                /\ epsg_code' = utm_epsg_code(latitude, utm_zone')
                /\ x' = geometry_x(latitude, longitude, epsg_code')
                /\ y' = geometry_y(latitude, longitude, epsg_code')
                /\ sgl_flight_angle' = SglFlightAngle(x', y')
                /\ local_angle' = LocalAngles(x', y')
                /\ flight_angle' = ClampAngles(local_angle', sgl_flight_angle')
                /\ polys_utm' = PolysUtm(x', y', flight_angle', along, across)
                /\ polys_crs' = wgs84_crs(epsg_code')
                /\ polys' = IF polys_crs' = epsg_code'
                            THEN polys_utm'
                            ELSE PolysWgs84(polys_utm', epsg_code')

\* get_segment_polygons(latitude, longitude, along, across)
CallSegmentPolygons(along, across) ==
    /\ op = "none"
    /\ op' = "get_segment_polygons"
    /\ SegmentPolygons(along, across)
    /\ NoTable
    /\ UNCHANGED <<latitude, longitude>>

\* geopandas.points_from_xy(longitude, latitude): one-vertex geometries
points_from_xy(lons, lats) ==
    [i \in 1..Len(lats) |-> << <<lons[i] * 1000000, lats[i] * 1000000>> >>]

\* GeoDataFrame.to_crs("EPSG:out"): every vertex of every row of the table
TableToCrs(geoms, out) ==
    [i \in 1..Len(geoms) |->
        [k \in 1..Len(geoms[i]) |-> to_crs_out(geoms[i][k], out)]]

\* get_icesat2_alt08_beam_as_gdf(input_file, beam, use_polys, out) on a file
\* whose land-segment latitude and longitude datasets are the arrays of the
\* state, with the default footprint size 100.0 x 13.0
CallBeamAsGdf(use_polys, out) ==
    /\ op = "none"
    /\ op' = "get_icesat2_alt08_beam_as_gdf"
    /\ use_seg_polys' = use_polys
    /\ out_epsg_code' = out
    /\ IF use_polys
       THEN SegmentPolygons(1000, 130)
       ELSE /\ err' = "none"
            /\ utm_zones' = << >>
            /\ along_size' = 0
            /\ across_size' = 0
            /\ NoSegmentLocals
    /\ IF err' # "none"
       THEN /\ gdf_geometry' = << >>
            /\ gdf_crs' = 0
            /\ to_crs_calls' = 0
       ELSE LET geometry == IF use_polys THEN polys'
                            ELSE points_from_xy(longitude, latitude)
            IN  IF out # Wgs84
                THEN /\ gdf_geometry' = TableToCrs(geometry, out)
                     /\ gdf_crs' = out
                     /\ to_crs_calls' = 1
                ELSE /\ gdf_geometry' = geometry
                     /\ gdf_crs' = Wgs84
                     /\ to_crs_calls' = 0
    /\ UNCHANGED <<latitude, longitude>>

\* get_icesat2_alt08_beam_as_gdf on a file without the beam, its land
\* segments, its canopy group or its terrain group: it raises before any
\* coordinate is read
CallBeamAsGdfMissing ==
    /\ op = "none"
    /\ op' = "get_icesat2_alt08_beam_as_gdf"
    /\ err' = "Exception"
    /\ utm_zones' = << >>
    /\ along_size' = 0
    /\ across_size' = 0
    /\ NoSegmentLocals
    /\ NoTable
    /\ UNCHANGED <<latitude, longitude>>

\* the call returns (or its exception reaches the caller): its frame is
\* dropped and the caller is left with its arrays, free to call again
Return ==
    /\ op # "none"
    /\ op' = "none"
    /\ err' = "none"
    /\ utm_zones' = << >>
    /\ along_size' = 0
    /\ across_size' = 0
    /\ NoSegmentLocals
    /\ NoTable
    /\ UNCHANGED <<latitude, longitude>>

\* values of out_epsg_code a caller passes: the default and a projected frame
OutEpsgCodes == {Wgs84, EpsgBase + 1}

Next ==
    \/ CallZoneNumber
    \/ CallZoneNumberScalar
    \/ CallModeZone
    \/ \E s \in Sizes : CallSegmentPolygons(s[1], s[2])
    \/ \E u \in BOOLEAN, o \in OutEpsgCodes : CallBeamAsGdf(u, o)
    \/ CallBeamAsGdfMissing
    \/ Return

Spec == Init /\ [][Next]_vars

(***************************************************************************)
(* Properties.                                                             *)
(***************************************************************************)
N == Len(latitude)

ZonesComputed ==
    op \in {"latlon_to_utm_zone_number", "latlon_to_mode_utm_zone_number",
            "get_segment_polygons"}

ModeCalled == op \in {"latlon_to_mode_utm_zone_number", "get_segment_polygons"}

InNorway(lat, lon) == 56 <= lat /\ lat < 64 /\ 3 <= lon /\ lon < 12

InSvalbard(lat, lon) == 72 <= lat /\ lat <= 84 /\ 0 <= lon /\ lon < 42

\* how many samples were given zone v
Occurrences(v) == Cardinality({ i \in 1..Len(utm_zones) : utm_zones[i] = v })

ZonesSeen == { utm_zones[i] : i \in 1..Len(utm_zones) }

\* the zones with the highest count
TopZones == { v \in ZonesSeen : \A w \in ZonesSeen : Occurrences(w) <= Occurrences(v) }

\* C1: outside the Norway and Svalbard regions and for longitude in
\* [-180, 180), the per-sample zone is floor((lon + 180) / 6) + 1 everywhere
\* in the 6-degree band.
C1_BandFormula ==
    ZonesComputed =>
        \A i \in 1..N :
            ( /\ ~InNorway(latitude[i], longitude[i])
              /\ ~InSvalbard(latitude[i], longitude[i])
              /\ -180 <= longitude[i] /\ longitude[i] < 180 )
            => utm_zones[i] = ((longitude[i] + 180) \div 6) + 1

\* C2: for latitude in [72, 84] the longitude sub-bands [0,9), [9,21),
\* [21,33), [33,42) give zones 31, 33, 35, 37 respectively.
C2_SvalbardSubBands ==
    ZonesComputed =>
        \A i \in 1..N :
            (72 <= latitude[i] /\ latitude[i] <= 84) =>
                /\ (0 <= longitude[i] /\ longitude[i] < 9) => utm_zones[i] = 31
                /\ (9 <= longitude[i] /\ longitude[i] < 21) => utm_zones[i] = 33
                /\ (21 <= longitude[i] /\ longitude[i] < 33) => utm_zones[i] = 35
                /\ (33 <= longitude[i] /\ longitude[i] < 42) => utm_zones[i] = 37

\* C3: every sample with latitude in [56, 64) and longitude in [3, 12) ends
\* with zone 32, whatever the band arithmetic gives and whatever masked
\* assignment comes after the Norway one.
C3_NorwayZone32 ==
    ZonesComputed =>
        \A i \in 1..N :
            InNorway(latitude[i], longitude[i]) => utm_zones[i] = 32

\* a Norway sample whose rounded band number is not 32 has been given a zone
C3_Witness ==
    /\ op = "latlon_to_utm_zone_number"
    /\ \E i \in 1..N :
          /\ InNorway(latitude[i], longitude[i])
          /\ RInt((longitude[i] + 180) + 6, 6) # 32
          /\ utm_zones[i] = 32

\* C4: for a non-empty batch the call returns one zone, a zone some sample
\* has and that no other zone outnumbers; being fixed by the per-sample
\* zones it is the same on every call with the same arrays.
C4_ModeIsMostFrequent ==
    (ModeCalled /\ N > 0) =>
        /\ err = "none"
        /\ utm_zone \in ZonesSeen
        /\ \A v \in ZonesSeen : Occurrences(v) <= Occurrences(utm_zone)

\* a ten-sample track split 7 to 3 between two zones, the 7 returned
C4_Witness ==
    /\ op = "latlon_to_mode_utm_zone_number"
    /\ N = 10
    /\ Occurrences(utm_zone) = 7
    /\ \E v \in ZonesSeen : Occurrences(v) = 3
    /\ utm_zones[1] # utm_zone

\* C5: when several zones share the highest count the lowest of them is
\* returned, wherever in the input their samples stand.
C5_TieLowest ==
    (ModeCalled /\ N > 0) =>
        utm_zone = CHOOSE v \in TopZones : \A w \in TopZones : v <= w

\* two zones tied for the highest count, the higher one met first
C5_Witness ==
    /\ op = "latlon_to_mode_utm_zone_number"
    /\ Cardinality(TopZones) >= 2
    /\ utm_zone \in TopZones
    /\ utm_zones[1] \in TopZones
    /\ utm_zones[1] > utm_zone

\* every sample of the track is the same point
AllCoincident ==
    \A i \in 1..N : latitude[i] = latitude[1] /\ longitude[i] = longitude[1]

\* C6: a single-sample track and a track of coincident samples make
\* get_segment_polygons fail with DegenerateTrackError and return nothing.
C6_DegenerateFails ==
    (op = "get_segment_polygons" /\ N >= 1 /\ AllCoincident) =>
        /\ err = "DegenerateTrackError"
        /\ polys = << >>

\* C7 as stated: zero samples fail with EmptyInputError.
C7_EmptyInputError ==
    (ModeCalled /\ N = 0) => err = "EmptyInputError"

\* C7, amended: zero samples make zone selection raise IndexError, at the
\* indexing of the empty mode array; no zone is returned, and
\* get_segment_polygons stops there with nothing projected or built.
C7_EmptyRaisesIndexError ==
    (ModeCalled /\ N = 0) =>
        /\ err = "IndexError"
        /\ utm_zones = << >>
        /\ utm_zone = 0
        /\ epsg_code = 0
        /\ x = << >> /\ y = << >>
        /\ polys_utm = << >> /\ polys = << >>

\* both entry points have been seen to raise on the empty track
C7_Witness ==
    /\ N = 0
    /\ op = "get_segment_polygons"
    /\ err = "IndexError"

\* some latitude is outside [-90, 90] or some longitude outside [-180, 180]
OutOfRange ==
    \E i \in 1..N :
        \/ latitude[i] < -90 \/ latitude[i] > 90
        \/ longitude[i] < -180 \/ longitude[i] > 180

\* C8: zone selection raises whenever a coordinate is out of range and
\* returns no zone.
C8_OutOfRangeFails ==
    (ModeCalled /\ OutOfRange) => (err # "none" /\ utm_zone = 0)

\* reach of a footprint from its centre, microdegrees: the two sizes in
\* decimetres bound the half diagonal, and a decimetre is under a microdegree
Reach == along_size + across_size

\* vertex v = <<lon, lat>> lies around sample i
Around(v, i) ==
    /\ v[1] # NaN /\ v[2] # NaN
    /\ Abs(v[1] - longitude[i] * 1000000) <= Reach
    /\ Abs(v[2] - latitude[i] * 1000000) <= Reach

\* C9: an accepted track of n samples gives n footprints, footprint i being
\* the rectangle around sample i.
C9_FootprintPerSample ==
    (op = "get_segment_polygons" /\ err = "none") =>
        /\ Len(polys) = N
        /\ \A i \in 1..N : \A k \in 1..4 : Around(polys[i][k], i)

\* what does hold of the returned array: n footprints, and footprint i is
\* around sample i when heading i is a number, all NaN when it is not
C9_AlignedWhereDefined ==
    (op = "get_segment_polygons" /\ err = "none") =>
        /\ Len(polys) = N
        /\ \A i \in 1..N : \A k \in 1..4 :
              IF flight_angle[i] = NaN
              THEN polys[i][k] = <<NaN, NaN>>
              ELSE Around(polys[i][k], i)

\* |a - b| > 0.1 rad as float64 decides it (False when a or b is NaN)
Deviates(a, b) == a # NaN /\ b # NaN /\ (a - b > AngleThreshold \/ b - a > AngleThreshold)

\* C10: with the reference heading computed once from the end points, the
\* heading each point is rotated by depends on that point alone: the
\* reference when its local heading deviates by more than 0.1 rad, its own
\* local heading otherwise.
C10_ClampPerPoint ==
    (op = "get_segment_polygons" /\ err = "none") =>
        /\ Len(flight_angle) = N
        /\ sgl_flight_angle = ATanQuot(x[N] - x[1], y[N] - y[1])
        /\ \A i \in 1..N :
              /\ flight_angle[i] =
                    IF Deviates(local_angle[i], sgl_flight_angle)
                    THEN sgl_flight_angle ELSE local_angle[i]
              /\ polys_utm[i] = Polygonise(x[i], y[i], flight_angle[i],
                                           along_size, across_size)

\* a point whose local heading is more than 0.1 rad under the reference is
\* rotated by the reference, beside a point that keeps a local heading
\* different from the reference
C10_Witness ==
    /\ op = "get_segment_polygons"
    /\ err = "none"
    /\ \E i, j \in 1..N :
          /\ local_angle[i] # NaN /\ sgl_flight_angle # NaN
          /\ sgl_flight_angle - local_angle[i] > AngleThreshold
          /\ flight_angle[i] = sgl_flight_angle
          /\ polys_utm[i] = Polygonise(x[i], y[i], sgl_flight_angle,
                                       along_size, across_size)
          /\ flight_angle[j] # NaN
          /\ flight_angle[j] = local_angle[j]
          /\ flight_angle[j] # sgl_flight_angle

\* squared distance, decimetres, between two planar vertices
Dist2(p, q) == (p[1] - q[1]) * (p[1] - q[1]) + (p[2] - q[2]) * (p[2] - q[2])

\* the side from p to q is a number and its length is size, to the 3
\* decimetres that rounding the thousandths of the products can lose
SideIs(p, q, size) ==
    /\ p[1] # NaN /\ p[2] # NaN /\ q[1] # NaN /\ q[2] # NaN
    /\ (size - 3) * (size - 3) <= Dist2(p, q)
    /\ Dist2(p, q) <= (size + 3) * (size + 3)

\* the four sides of planar footprint i: UL-UR, UR-LR, LR-LL, LL-UL
SidesOf(i) ==
    /\ SideIs(polys_utm[i][1], polys_utm[i][2], across_size)
    /\ SideIs(polys_utm[i][2], polys_utm[i][3], along_size)
    /\ SideIs(polys_utm[i][3], polys_utm[i][4], across_size)
    /\ SideIs(polys_utm[i][4], polys_utm[i][1], along_size)

\* C11: in every planar footprint, whatever the heading used, consecutive
\* corners are across_size, along_size, across_size, along_size apart.
C11_SideLengths ==
    (op = "get_segment_polygons" /\ err = "none") =>
        \A i \in 1..N : SidesOf(i)

\* what does hold: the sides have those lengths in every footprint whose
\* heading is a number
C11_SidesWhereDefined ==
    (op = "get_segment_polygons" /\ err = "none") =>
        \A i \in 1..N : flight_angle[i] # NaN => SidesOf(i)

\* the point (px, py) turned about (cx, cy) by heading t:
\* x' = cx + cos(t)(px - cx) + sin(t)(py - cy),
\* y' = cy - sin(t)(px - cx) + cos(t)(py - cy)
Turned(cx, cy, px, py, t) ==
    IF t = NaN THEN <<NaN, NaN>>
    ELSE <<cx + DivRound(Cos(t) * (px - cx) + Sin(t) * (py - cy), Milli),
           cy + DivRound(Cos(t) * (py - cy) - Sin(t) * (px - cx), Milli)>>

\* C12: the vertices of polygon i are, in this order, the upper-left,
\* upper-right, lower-right and lower-left corners of the rectangle centred
\* on point i, each turned about point i's own centre by point i's own
\* heading.
C12_CornersInOrder ==
    (op = "get_segment_polygons" /\ err = "none") =>
        \A i \in 1..N :
            LET cx == x[i]
                cy == y[i]
                t == flight_angle[i]
                ah == across_size \div 2
                lh == along_size \div 2
            IN  polys_utm[i] =
                  << Turned(cx, cy, cx - ah, cy + lh, t),
                     Turned(cx, cy, cx + ah, cy + lh, t),
                     Turned(cx, cy, cx + ah, cy - lh, t),
                     Turned(cx, cy, cx - ah, cy - lh, t) >>

\* two footprints of one track with different centres and different
\* headings, neither heading zero
C12_Witness ==
    /\ op = "get_segment_polygons"
    /\ err = "none"
    /\ \E i, j \in 1..N :
          /\ flight_angle[i] # NaN /\ flight_angle[j] # NaN
          /\ flight_angle[i] # 0 /\ flight_angle[j] # 0
          /\ flight_angle[i] # flight_angle[j]
          /\ <<x[i], y[i]>> # <<x[j], y[j]>>
          /\ polys_utm[i][1] # <<x[i] - across_size \div 2, y[i] + along_size \div 2>>

\* C13: one call selects one zone; the code 32600 + zone derived from it is
\* the frame every point is projected to and the frame every footprint is
\* declared in before it is projected back.
C13_OneZonePerCall ==
    (op = "get_segment_polygons" /\ err = "none") =>
        /\ epsg_code = EpsgBase + utm_zone
        /\ \A i \in 1..N :
              /\ x[i] - longitude[i] * DmPerDeg
                    = FalseEasting - CentralMeridian(epsg_code) * DmPerDeg
              /\ \A k \in 1..4 :
                    polys_utm[i][k][1] # NaN =>
                        polys[i][k][1] - ToMicroDeg(polys_utm[i][k][1] - FalseEasting)
                            = CentralMeridian(epsg_code) * 1000000

\* a track whose samples lie in different zones has been projected and its
\* footprints projected back
C13_Witness ==
    /\ op = "get_segment_polygons"
    /\ err = "none"
    /\ \E i, j \in 1..N :
          /\ utm_zones[i] # utm_zones[j]
          /\ utm_zones[i] = utm_zone
          /\ polys[i][1][1] # NaN /\ polys[j][1][1] # NaN

\* get_segment_polygons has run to its return, called directly or for the table
SegmentsReturned ==
    /\ err = "none"
    /\ \/ op = "get_segment_polygons"
       \/ op = "get_icesat2_alt08_beam_as_gdf" /\ use_seg_polys

\* the geometries the table is built from, in EPSG:4326
TableSource ==
    IF use_seg_polys THEN polys ELSE points_from_xy(longitude, latitude)

\* C14: get_segment_polygons returns its footprints in EPSG:4326 whatever
\* output EPSG was asked for; the table is reprojected to out_epsg_code only
\* afterwards in get_icesat2_alt08_beam_as_gdf, exactly when out_epsg_code is
\* not 4326, and then as a whole, once.
C14_Wgs84ThenReprojectOnce ==
    /\ SegmentsReturned =>
          /\ polys_crs = Wgs84
          /\ polys = PolysWgs84(polys_utm, epsg_code)
          /\ \A i \in 1..Len(polys) : \A k \in 1..4 :
                polys_utm[i][k][1] # NaN => Around(polys[i][k], i)
    /\ (op = "get_icesat2_alt08_beam_as_gdf" /\ err = "none") =>
          /\ gdf_crs = out_epsg_code
          /\ to_crs_calls = (IF out_epsg_code # Wgs84 THEN 1 ELSE 0)
          /\ Len(gdf_geometry) = N
          /\ out_epsg_code = Wgs84 => gdf_geometry = TableSource
          /\ out_epsg_code # Wgs84 =>
                \A i \in 1..N : \A k \in 1..Len(TableSource[i]) :
                    gdf_geometry[i][k] = to_crs_out(TableSource[i][k], out_epsg_code)

\* a table of footprints asked for in a projected frame that is not the
\* track's own zone: footprints came back geographic, the table was
\* reprojected once
C14_Witness ==
    /\ op = "get_icesat2_alt08_beam_as_gdf"
    /\ err = "none"
    /\ use_seg_polys
    /\ N >= 2
    /\ out_epsg_code # Wgs84
    /\ out_epsg_code # epsg_code
    /\ polys_crs = Wgs84
    /\ to_crs_calls = 1
    /\ \E i \in 1..N : polys[i][1][1] # NaN /\ gdf_geometry[i][1] # polys[i][1]

\* C17: latlon_to_utm_zone_number called with one scalar pair returns the
\* single zone of that pair without failing, and called with arrays of
\* length n returns n zones, zone k being that of pair k.
C17_ScalarOrArray ==
    /\ op = "latlon_to_utm_zone_number(scalar)" =>
          /\ err = "none"
          /\ utm_zones = << ZoneOf(latitude[1], longitude[1]) >>
    /\ op = "latlon_to_utm_zone_number" =>
          /\ err = "none"
          /\ Len(utm_zones) = N
          /\ \A k \in 1..N : utm_zones[k] = ZoneOf(latitude[k], longitude[k])

\* the array half of C17 alone
C17_ArrayZones ==
    op = "latlon_to_utm_zone_number" =>
        /\ err = "none"
        /\ Len(utm_zones) = N
        /\ \A k \in 1..N : utm_zones[k] = ZoneOf(latitude[k], longitude[k])

\* index of the "forward" neighbour of point i: max(i-1, 0), counted from 1
Fwd(i) == IF i - 1 >= 1 THEN i - 1 ELSE 1

\* index of the "backward" neighbour of point i: min(i+1, n-1), counted from 1
Bck(i) == IF i + 1 <= N THEN i + 1 ELSE N

\* C18: the local heading of point i is atan((x[f] - x[b]) / (y[f] - y[b]))
\* with f = max(i-1, 0) and b = min(i+1, n-1): interior points use both
\* neighbours, the first point itself and the second, the last point the one
\* before it and itself, and no index outside the track is read.
C18_LocalHeadingNeighbours ==
    (op = "get_segment_polygons" /\ err = "none") =>
        /\ Len(local_angle) = N
        /\ Len(x) = N
        /\ Len(y) = N
        /\ \A i \in 1..N :
              /\ Fwd(i) \in 1..N
              /\ Bck(i) \in 1..N
              /\ local_angle[i] = ATanQuot(x[Fwd(i)] - x[Bck(i)],
                                           y[Fwd(i)] - y[Bck(i)])

\* a track with an interior point whose three kinds of heading (first,
\* interior, last) are all numbers and not all the same
C18_Witness ==
    /\ op = "get_segment_polygons"
    /\ err = "none"
    /\ N >= 3
    /\ local_angle[1] # NaN
    /\ local_angle[N] # NaN
    /\ \E i \in 2..(N - 1) :
          /\ local_angle[i] # NaN
          /\ local_angle[i] # local_angle[1]
          /\ local_angle[i] # local_angle[N]

\* the first and the last point of the track differ
EndsDiffer ==
    N >= 1 /\ (latitude[1] # latitude[N] \/ longitude[1] # longitude[N])

\* C19: on a track whose first and last points differ, a point whose
\* neighbours coincide (local heading 0/0) gets the reference heading: after
\* the stability rule every heading is a number within 0.1 rad of the
\* reference heading and every emitted corner is a defined coordinate.
C19_UndefinedHeadingClamped ==
    (op = "get_segment_polygons" /\ err = "none" /\ EndsDiffer) =>
        /\ sgl_flight_angle # NaN
        /\ \A i \in 1..N :
              /\ flight_angle[i] # NaN
              /\ Abs(flight_angle[i] - sgl_flight_angle) <= AngleThreshold
              /\ \A k \in 1..4 :
                    /\ polys_utm[i][k][1] # NaN /\ polys_utm[i][k][2] # NaN
                    /\ polys[i][k][1] # NaN /\ polys[i][k][2] # NaN

\* the part of C19 that the stability rule does give: the reference heading
\* is defined, and every heading that is a number is within 0.1 rad of it
C19_ClampedWhereDefined ==
    (op = "get_segment_polygons" /\ err = "none" /\ EndsDiffer) =>
        /\ sgl_flight_angle # NaN
        /\ \A i \in 1..N :
              flight_angle[i] # NaN =>
                  Abs(flight_angle[i] - sgl_flight_angle) <= AngleThreshold

\* every sample has its latitude in [-90, 90] and its longitude in [-180, 180)
AllInRange ==
    \A i \in 1..N :
        /\ -90 <= latitude[i] /\ latitude[i] <= 90
        /\ -180 <= longitude[i] /\ longitude[i] < 180

\* C20: for latitudes in [-90, 90] and longitudes in [-180, 180) every zone
\* returned by latlon_to_utm_zone_number, and so the mode zone, lies in 1..60
\* and the derived code 32600 + zone lies in 32601..32660.
C20_ZoneInRange ==
    AllInRange =>
        /\ ZonesComputed =>
              \A i \in 1..Len(utm_zones) : utm_zones[i] \in 1..60
        /\ (ModeCalled /\ err = "none") => utm_zone \in 1..60
        /\ (op = "get_segment_polygons" /\ err = "none") =>
              epsg_code \in (EpsgBase + 1)..(EpsgBase + 60)

\* every sample of the track lies south of the equator
AllSouthern == N >= 1 /\ \A i \in 1..N : latitude[i] < 0

\* no sample lies in the Norway or the Svalbard box
NoException ==
    \A i \in 1..N :
        ~InNorway(latitude[i], longitude[i]) /\ ~InSvalbard(latitude[i], longitude[i])

\* C21: the planar frame of get_segment_polygons is always EPSG 32600 + mode
\* zone, the northern-hemisphere frame, also for a track whose samples are all
\* southern; latitude reaches the frame only through the Norway and Svalbard
\* exceptions: without them every zone is the rounded band of the longitude.
C21_NorthernFrameAlways ==
    (op = "get_segment_polygons" /\ err = "none") =>
        /\ epsg_code - EpsgBase = utm_zone
        /\ utm_zone \in TopZones
        /\ \A w \in TopZones : utm_zone <= w
        /\ NoException =>
              \A i \in 1..N : utm_zones[i] = RInt((longitude[i] + 180) + 6, 6)

\* a southern track of distinct samples: footprints were built in the frame
\* EPSG 32600 + zone
C21_Witness ==
    /\ op = "get_segment_polygons"
    /\ err = "none"
    /\ AllSouthern
    /\ N >= 2
    /\ latitude[1] # latitude[N]
    /\ epsg_code = EpsgBase + utm_zone
    /\ \A i \in 1..N : y[i] < 0 /\ polys[i][1][1] # NaN
====
